---- MODULE Spec2Model ----
(***************************************************************************)
(* Device-history route handlers (GET / POST / DELETE over the tables      *)
(* device_history and security_logs) and the ErrorBoundary component.      *)
(***************************************************************************)
EXTENDS Integers, Sequences, FiniteSets, TLC

\* ------------------------------------------------------------ bounds ----
NumUsers   == 2    \* user ids 1..NumUsers
MaxDevices == 2    \* identifiers uuidv4() can hand out
MaxLogs    == 2    \* rows of security_logs
MaxClock   == 1    \* values of the wall clock

Users     == 1..NumUsers
NoUser    == 0                    \* supabase.auth.getUser() resolved no user
Callers   == Users \cup {NoUser}
DeviceIds == 1..MaxDevices
NoDevice  == 0
Outcomes  == {"ok", "error"}      \* a backend call answers {error: null} or {error}

VARIABLES device_history, security_logs, nextId, now, last, repeated, reqs

devVars ==
    <<device_history, security_logs, nextId, now, last, repeated, reqs>>

VARIABLES hasError, error, fallback, defect, output, phase, caught, event

ebVars == <<hasError, error, fallback, defect, output, phase, caught, event>>

\* ErrorBoundary: values and initial state
Undefined == "undefined"
Errors    == {"E1", "E2"}         \* values a descendant can throw
\* the fallback prop: not passed, passed with a value JavaScript takes as
\* false (null, false, 0, ""), or passed with any other node
Fallbacks == {"absent", "falsy", "node"}
MaxCaught == 3                    \* renders that throw

\* the component's state is {hasError: false}
InitialState == [hasError |-> FALSE, error |-> Undefined]

\* ------------------------------------------------------ data store ----
\* the select without its user filter
EqUserIdMissing(tbl, u) == tbl

\* .eq('user_id', user.id)
EqUserId(tbl, u) == {r \in tbl : r.user_id = u}

\* .order('last_active', { ascending: false }): every listing of the rows
\* in which last_active never increases (equal stamps come in any order)
OrderDesc(rows) ==
    {s \in [1..Cardinality(rows) -> rows] :
        /\ \A i, j \in 1..Cardinality(rows) : i # j => s[i] # s[j]
        /\ \A i \in 1..(Cardinality(rows) - 1) :
               s[i].last_active >= s[i + 1].last_active}

\* .update({ is_current: false }).eq('user_id', user.id)
UpdateNotCurrent(tbl, u) ==
    {IF r.user_id = u THEN [r EXCEPT !.is_current = FALSE] ELSE r : r \in tbl}

\* a delete without its user filter
DeleteDeviceAnyUser(tbl, u, d) == {r \in tbl : r.device_id # d}

\* a delete whose device filter names a column no row matches
DeleteDeviceWrongColumn(tbl, u, d) == tbl

\* .delete().eq('user_id', user.id).eq('device_id', deviceId)
DeleteDevice(tbl, u, d) ==
    {r \in tbl : ~(r.user_id = u /\ r.device_id = d)}

\* a deviceInfo object that is not flagged current
DeviceInfoNotCurrent(u, d, t) ==
    [user_id |-> u, device_id |-> d, is_current |-> FALSE, last_active |-> t]

\* the deviceInfo object of POST (device_name, browser, os and ip_address
\* are carried along unread by the handlers and are left out)
DeviceInfo(u, d, t) ==
    [user_id |-> u, device_id |-> d, is_current |-> TRUE, last_active |-> t]

\* a security_logs row that always carries the type device_removed
LogEntryOneType(u, type, d) ==
    [user_id |-> u, type |-> "device_removed", device_id |-> d]

\* a security_logs row
LogEntry(u, type, d) == [user_id |-> u, type |-> type, device_id |-> d]

\* one backend call as the handler issued it
Call(table, verb, result) == [table |-> table, verb |-> verb, result |-> result]

\* NextResponse.json(...)
Response(status, success, deviceId, devices) ==
    [status |-> status, error |-> (status # 200), success |-> success,
     deviceId |-> deviceId, devices |-> devices]

\* what one request did: the new tables, the response, the calls issued
Done(tbl, logs, resp, calls) ==
    [tbl |-> tbl, logs |-> logs, resp |-> resp, calls |-> calls]

\* ------------------------------------------------------- handlers ----
\* GET without the user check: the select is issued for whoever asks
GETHandlerNoUserCheck(tbl, logs, u, c1, listing) ==
    IF c1 = "error"
    THEN Done(tbl, logs, Response(500, FALSE, NoDevice, <<>>),
              <<Call("device_history", "select", c1)>>)
    ELSE Done(tbl, logs, Response(200, FALSE, NoDevice, listing),
              <<Call("device_history", "select", c1)>>)

\* GET: the user check, then one select whose error is thrown
GETHandler(tbl, logs, u, c1, listing) ==
    IF u = NoUser
    THEN Done(tbl, logs, Response(401, FALSE, NoDevice, <<>>), <<>>)
    ELSE IF c1 = "error"
         THEN Done(tbl, logs, Response(500, FALSE, NoDevice, <<>>),
                   <<Call("device_history", "select", c1)>>)
         ELSE Done(tbl, logs, Response(200, FALSE, NoDevice, listing),
                   <<Call("device_history", "select", c1)>>)

\* POST that answers 401 when no user is resolved
POSTHandlerUserCheck(tbl, logs, u, d, t, c1, c2, c3) ==
    IF u = NoUser
    THEN Done(tbl, logs, Response(401, FALSE, NoDevice, <<>>), <<>>)
    ELSE LET tbl1 == IF c1 = "ok" THEN UpdateNotCurrent(tbl, u) ELSE tbl
             k1   == <<Call("device_history", "update", c1)>>
             k2   == Append(k1, Call("device_history", "insert", c2))
         IN  IF c2 = "error"
             THEN Done(tbl1, logs, Response(500, FALSE, NoDevice, <<>>), k2)
             ELSE Done(tbl1 \cup {DeviceInfo(u, d, t)},
                       IF c3 = "ok"
                       THEN Append(logs, LogEntry(u, "new_device_added", d))
                       ELSE logs,
                       Response(200, TRUE, d, <<>>),
                       Append(k2, Call("security_logs", "insert", c3)))

\* POST that puts the flags back when the insert fails
POSTHandlerRollback(tbl, logs, u, d, t, c1, c2, c3) ==
    IF u = NoUser
    THEN Done(tbl, logs, Response(500, FALSE, NoDevice, <<>>), <<>>)
    ELSE LET tbl1 == IF c1 = "ok" THEN UpdateNotCurrent(tbl, u) ELSE tbl
             k1   == <<Call("device_history", "update", c1)>>
             k2   == Append(k1, Call("device_history", "insert", c2))
         IN  IF c2 = "error"
             THEN Done(tbl, logs, Response(500, FALSE, NoDevice, <<>>), k2)
             ELSE Done(tbl1 \cup {DeviceInfo(u, d, t)},
                       IF c3 = "ok"
                       THEN Append(logs, LogEntry(u, "new_device_added", d))
                       ELSE logs,
                       Response(200, TRUE, d, <<>>),
                       Append(k2, Call("security_logs", "insert", c3)))

\* POST: user.id is read while building deviceInfo (a null user faults into
\* the catch); the update's result is dropped, the insert's error is thrown,
\* the log insert's result is dropped
POSTHandler(tbl, logs, u, d, t, c1, c2, c3) ==
    IF u = NoUser
    THEN Done(tbl, logs, Response(500, FALSE, NoDevice, <<>>), <<>>)
    ELSE LET tbl1 == IF c1 = "ok" THEN UpdateNotCurrent(tbl, u) ELSE tbl
             k1   == <<Call("device_history", "update", c1)>>
             k2   == Append(k1, Call("device_history", "insert", c2))
         IN  IF c2 = "error"
             THEN Done(tbl1, logs, Response(500, FALSE, NoDevice, <<>>), k2)
             ELSE Done(tbl1 \cup {DeviceInfo(u, d, t)},
                       IF c3 = "ok"
                       THEN Append(logs, LogEntry(u, "new_device_added", d))
                       ELSE logs,
                       Response(200, TRUE, d, <<>>),
                       Append(k2, Call("security_logs", "insert", c3)))

\* DELETE that logs the removal only when a row was deleted
DELETEHandlerIfExisted(tbl, logs, u, bodyOk, d, c1, c2) ==
    IF ~bodyOk \/ u = NoUser
    THEN Done(tbl, logs, Response(500, FALSE, NoDevice, <<>>), <<>>)
    ELSE LET k1 == <<Call("device_history", "delete", c1)>>
         IN  IF c1 = "error"
             THEN Done(tbl, logs, Response(500, FALSE, NoDevice, <<>>), k1)
             ELSE IF DeleteDevice(tbl, u, d) = tbl
                  THEN Done(tbl, logs, Response(200, TRUE, NoDevice, <<>>), k1)
                  ELSE Done(DeleteDevice(tbl, u, d),
                            IF c2 = "ok"
                            THEN Append(logs, LogEntry(u, "device_removed", d))
                            ELSE logs,
                            Response(200, TRUE, NoDevice, <<>>),
                            Append(k1, Call("security_logs", "insert", c2)))

\* DELETE: req.json() may throw; user.id is read while building the delete
\* (a null user faults into the catch); the delete's error is thrown, the
\* log insert's result is dropped
DELETEHandler(tbl, logs, u, bodyOk, d, c1, c2) ==
    IF ~bodyOk \/ u = NoUser
    THEN Done(tbl, logs, Response(500, FALSE, NoDevice, <<>>), <<>>)
    ELSE LET k1 == <<Call("device_history", "delete", c1)>>
         IN  IF c1 = "error"
             THEN Done(tbl, logs, Response(500, FALSE, NoDevice, <<>>), k1)
             ELSE Done(DeleteDevice(tbl, u, d),
                       IF c2 = "ok"
                       THEN Append(logs, LogEntry(u, "device_removed", d))
                       ELSE logs,
                       Response(200, TRUE, NoDevice, <<>>),
                       Append(k1, Call("security_logs", "insert", c2)))

\* ------------------------------------------------------- requests ----
\* the request just served: who asked what, the answer, the calls issued
\* (repeated: the request before it was the same call with the same answer)
\* nlogs0: the number of security_logs rows when the request started
Request(op, u, arg, r, logs0) ==
    [op |-> op, user |-> u, arg |-> arg, resp |-> r.resp, calls |-> r.calls,
     nlogs0 |-> Len(logs0)]

SameCall(a, b) ==
    /\ a.op = b.op /\ a.user = b.user /\ a.arg = b.arg
    /\ a.resp = b.resp /\ a.calls = b.calls

NoRequest ==
    [op |-> "none", user |-> NoUser, arg |-> NoDevice,
     resp |-> Response(200, FALSE, NoDevice, <<>>), calls |-> <<>>,
     nlogs0 |-> 0]

Serve(op, u, arg, r) ==
    /\ device_history' = r.tbl
    /\ security_logs' = r.logs
    /\ last' = Request(op, u, arg, r, security_logs)
    /\ repeated' = SameCall(Request(op, u, arg, r, security_logs), last)
    /\ UNCHANGED <<reqs, ebVars>>

\* two POST requests in flight at once, each at one of its awaits
Procs == {"a", "b"}

IdleRequest ==
    [pc |-> "idle", user |-> NoUser, deviceId |-> NoDevice, t |-> 0,
     calls |-> <<>>, status |-> 0]

Init ==
    /\ reqs = [p \in Procs |-> IdleRequest]
    /\ device_history = {}
    /\ security_logs = <<>>
    /\ nextId = 1
    /\ now = 0
    /\ last = NoRequest
    /\ repeated = FALSE
    /\ hasError = InitialState.hasError
    /\ error = InitialState.error
    /\ fallback = "absent"
    /\ defect = Undefined
    /\ output = "none"
    /\ phase = "rendering"
    /\ caught = 0
    /\ event = "mount"

GET ==
    \E u \in Callers, c1 \in Outcomes :
      \E listing \in OrderDesc(EqUserId(device_history, u)) :
        /\ Serve("List", u, NoDevice,
                 GETHandler(device_history, security_logs, u, c1, listing))
        /\ UNCHANGED <<nextId, now>>

POST ==
    \E u \in Callers, c1, c2, c3 \in Outcomes, t \in now..MaxClock :
        /\ nextId <= MaxDevices
        /\ Len(security_logs) < MaxLogs
        /\ Serve("Register", u, NoDevice,
                 POSTHandler(device_history, security_logs, u, nextId, t,
                             c1, c2, c3))
        /\ nextId' = nextId + 1
        /\ now' = t

DELETE ==
    \E u \in Callers, bodyOk \in BOOLEAN, d \in DeviceIds, c1, c2 \in Outcomes :
        /\ Len(security_logs) < MaxLogs
        /\ Serve("Remove", u, IF bodyOk THEN d ELSE NoDevice,
                 DELETEHandler(device_history, security_logs, u, bodyOk, d,
                               c1, c2))
        /\ UNCHANGED <<nextId, now>>

\* -------------------------------------------------- ErrorBoundary ----
\* getDerivedStateFromError that drops the error it is given
getDerivedStateFromErrorNoError(e) == [hasError |-> TRUE, error |-> Undefined]

\* getDerivedStateFromError that stores the error without raising the flag
getDerivedStateFromErrorNoFlag(e) == [hasError |-> FALSE, error |-> e]

\* static getDerivedStateFromError(error)
getDerivedStateFromError(e) == [hasError |-> TRUE, error |-> e]

\* the state handleRetry sets
RetryState == [hasError |-> FALSE, error |-> Undefined]

\* render(): what the boundary returns for its state and props
\* render() that shows the panel whatever the fallback prop is
renderPanelOnly(h, fb) == IF h THEN "panel" ELSE "children"

\* render(): what the boundary returns for its state and props; the test
\* of this.props.fallback is a truthiness test
render(h, fb) ==
    IF h THEN (IF fb = "node" THEN "fallback" ELSE "panel") ELSE "children"

\* the parent re-renders the boundary: the fallback prop and what the
\* children do when rendered may both have changed
Update ==
    \E fb \in Fallbacks, df \in Errors \cup {Undefined} :
        /\ fallback' = fb
        /\ defect' = df
        /\ phase' = "rendering"
        /\ event' = "update"
        /\ UNCHANGED <<hasError, error, output, caught, devVars>>

\* a render pass in which nothing throws is committed
Render ==
    /\ phase = "rendering"
    /\ ~(render(hasError, fallback) = "children" /\ defect # Undefined)
    /\ output' = render(hasError, fallback)
    /\ phase' = "idle"
    /\ event' = "render"
    /\ UNCHANGED <<hasError, error, fallback, defect, caught, devVars>>

\* a descendant throws while the children are rendered: the state comes
\* from getDerivedStateFromError, componentDidCatch logs, and the boundary
\* is rendered again
Throw ==
    /\ phase = "rendering"
    /\ render(hasError, fallback) = "children"
    /\ defect # Undefined
    /\ caught < MaxCaught
    /\ hasError' = getDerivedStateFromError(defect).hasError
    /\ error' = getDerivedStateFromError(defect).error
    /\ caught' = caught + 1
    /\ event' = "throw"
    /\ UNCHANGED <<fallback, defect, output, phase, devVars>>

\* a retry that can be triggered whatever the boundary shows
handleRetryAnyOutput ==
    /\ phase = "idle"
    /\ hasError' = RetryState.hasError
    /\ error' = RetryState.error
    /\ phase' = "rendering"
    /\ event' = "retry"
    /\ UNCHANGED <<fallback, defect, output, caught, devVars>>

\* the panel's button is clicked: handleRetry sets the state and a render
\* is scheduled
handleRetry ==
    /\ phase = "idle"
    /\ output = "panel"
    /\ hasError' = RetryState.hasError
    /\ error' = RetryState.error
    /\ phase' = "rendering"
    /\ event' = "retry"
    /\ UNCHANGED <<fallback, defect, output, caught, devVars>>

\* ------------------------------------------- POST, await by await ----
\* up to the first await: the user is resolved, the identifier generated and
\* deviceInfo built (a null user faults into the catch)
POSTBuild(p) ==
    \E u \in Callers, t \in now..MaxClock :
        /\ reqs[p].pc = "idle"
        /\ nextId <= MaxDevices
        /\ reqs' = [reqs EXCEPT ![p] =
              IF u = NoUser
              THEN [IdleRequest EXCEPT !.pc = "done", !.status = 500]
              ELSE [pc |-> "built", user |-> u, deviceId |-> nextId, t |-> t,
                    calls |-> <<>>, status |-> 0]]
        /\ nextId' = nextId + 1
        /\ now' = t
        /\ UNCHANGED <<device_history, security_logs, last, repeated, ebVars>>

\* the update that clears is_current; its result is dropped
POSTClear(p) ==
    \E c \in Outcomes :
        /\ reqs[p].pc = "built"
        /\ device_history' =
              IF c = "ok" THEN UpdateNotCurrent(device_history, reqs[p].user)
              ELSE device_history
        /\ reqs' = [reqs EXCEPT ![p].pc = "cleared",
                                ![p].calls = Append(@, Call("device_history", "update", c))]
        /\ UNCHANGED <<security_logs, nextId, now, last, repeated, ebVars>>

\* the insert of deviceInfo; its error is thrown into the catch
POSTInsert(p) ==
    \E c \in Outcomes :
        /\ reqs[p].pc = "cleared"
        /\ device_history' =
              IF c = "ok"
              THEN device_history \cup
                     {DeviceInfo(reqs[p].user, reqs[p].deviceId, reqs[p].t)}
              ELSE device_history
        /\ reqs' = [reqs EXCEPT ![p].pc = IF c = "ok" THEN "inserted" ELSE "done",
                                ![p].status = IF c = "ok" THEN 0 ELSE 500,
                                ![p].calls = Append(@, Call("device_history", "insert", c))]
        /\ UNCHANGED <<security_logs, nextId, now, last, repeated, ebVars>>

\* the insert into security_logs (its result is dropped) and the 200 answer
POSTLog(p) ==
    \E c \in Outcomes :
        /\ reqs[p].pc = "inserted"
        /\ security_logs' =
              IF c = "ok"
              THEN Append(security_logs,
                          LogEntry(reqs[p].user, "new_device_added",
                                   reqs[p].deviceId))
              ELSE security_logs
        /\ reqs' = [reqs EXCEPT ![p].pc = "done", ![p].status = 200,
                                ![p].calls = Append(@, Call("security_logs", "insert", c))]
        /\ UNCHANGED <<device_history, nextId, now, last, repeated, ebVars>>

\* ------------------------------------------------- specifications ----
vars == <<devVars, ebVars>>

Next == GET \/ POST \/ DELETE

Spec == Init /\ [][Next]_vars

NextEB == Update \/ Render \/ Throw \/ handleRetry

SpecEB == Init /\ [][NextEB]_vars

NextRace ==
    \E p \in Procs : POSTBuild(p) \/ POSTClear(p) \/ POSTInsert(p) \/ POSTLog(p)

SpecRace == Init /\ [][NextRace]_vars

\* ------------------------------------------------------- claims ----
AllOk(calls) == \A i \in DOMAIN calls : calls[i].result = "ok"

CurrentOf(tbl, u) == {r \in tbl : r.user_id = u /\ r.is_current}

\* C1: whatever requests were served one after the other, and whichever of
\* their backend calls failed, no user owns two records with is_current
C1_AtMostOneCurrent ==
    \A u \in Users : Cardinality(CurrentOf(device_history, u)) <= 1

\* C2: right after a Register that answered 200 with success, the inserted
\* record is current and no other record of that user is
C2_RegisterLeavesOneCurrent ==
    (last.op = "Register" /\ last.resp.status = 200 /\ last.resp.success)
    => \E r \in device_history :
          /\ r.device_id = last.resp.deviceId
          /\ r.user_id = last.user
          /\ r.is_current
          /\ \A o \in device_history :
                (o.user_id = last.user /\ o # r) => ~o.is_current

\* C3: a Register that answers success appends exactly one new_device_added
\* entry, owned by the caller, whose device_id is the deviceId returned and
\* the device_id of the record it inserted
C3_RegisterOk ==
    last'.op = "Register" /\ last'.resp.status = 200 /\ last'.resp.success

C3_OneAuditEntry ==
    /\ security_logs' =
          Append(security_logs,
                 LogEntry(last'.user, "new_device_added", last'.resp.deviceId))
    /\ \E r \in device_history' \ device_history :
          r.device_id = last'.resp.deviceId /\ r.user_id = last'.user

C3_RegisterLogsOnce == [][C3_RegisterOk => C3_OneAuditEntry]_vars

\* C4: in Register a failed persistence step is the last step issued and the
\* answer is 500 with an error body
C4_RegisterAbortsOnFailure ==
    last.op = "Register"
    => \A i \in DOMAIN last.calls :
          last.calls[i].result = "error"
          => (i = Len(last.calls) /\ last.resp.status = 500 /\ last.resp.error)

\* C5 as stated: every Remove call that names a device appends exactly one
\* device_removed entry owned by the caller and naming that device
C5_RemoveCall ==
    last'.op = "Remove" /\ last'.user \in Users /\ last'.arg \in DeviceIds

C5_OneRemovedEntry ==
    security_logs' =
        Append(security_logs, LogEntry(last'.user, "device_removed", last'.arg))

C5_BackendOk == Len(last'.calls) >= 1 /\ AllOk(last'.calls)

C6_Twice ==
    /\ last.op = "Remove" /\ last'.op = "Remove"
    /\ last.user \in Users /\ last'.user = last.user
    /\ last.arg \in DeviceIds /\ last'.arg = last.arg

C6_BothSucceedTwoEntries ==
    /\ last.resp.status = 200 /\ last.resp.success
    /\ last'.resp.status = 200 /\ last'.resp.success
    /\ device_history' = device_history
    /\ \A r \in device_history :
          ~(r.user_id = last.user /\ r.device_id = last.arg)
    /\ Len(security_logs') = last.nlogs0 + 2
    /\ \A i \in {Len(security_logs') - 1, Len(security_logs')} :
          security_logs'[i] = LogEntry(last.user, "device_removed", last.arg)

C6_BackendOk ==
    /\ Len(last.calls) >= 1 /\ AllOk(last.calls)
    /\ Len(last'.calls) >= 1 /\ AllOk(last'.calls)

C7_UnauthenticatedList ==
    [][(last'.op = "List" /\ last'.user = NoUser)
       => /\ last'.resp.status = 401
          /\ last'.resp.error
          /\ last'.calls = <<>>
          /\ device_history' = device_history
          /\ security_logs' = security_logs]_vars

\* an unauthenticated List was answered while the tables held rows
C7_Witness ==
    /\ last.op = "List" /\ last.user = NoUser /\ last.resp.status = 401
    /\ device_history # {} /\ security_logs # <<>>

\* C8: with a resolved user, a request one of whose persistence calls failed
\* answers 500 with an error body, and a 200 means every call succeeded
C8_FailureIs500 ==
    (last.op \in {"List", "Register", "Remove"} /\ last.user \in Users)
    => /\ (~AllOk(last.calls)) => (last.resp.status = 500 /\ last.resp.error)
       /\ (last.resp.status = 200) => AllOk(last.calls)

\* C9: a List by a resolved user whose select succeeds returns exactly that
\* user's records, each once, last_active never increasing, and changes no
\* device record and no log entry
C9_ListOk ==
    last'.op = "List" /\ last'.user \in Users /\ last'.resp.status = 200

C9_Listing ==
    LET ds == last'.resp.devices
    IN  /\ {ds[i] : i \in DOMAIN ds} =
              {r \in device_history : r.user_id = last'.user}
        /\ \A i, j \in DOMAIN ds : i # j => ds[i] # ds[j]
        /\ \A i, j \in DOMAIN ds :
              i < j => ds[i].last_active >= ds[j].last_active
        /\ device_history' = device_history
        /\ security_logs' = security_logs

C9_ListReturnsOwnDevices == [][C9_ListOk => C9_Listing]_vars

\* a List returned the caller's record while another user's record existed
C9_Witness ==
    /\ last.op = "List" /\ last.user \in Users /\ last.resp.status = 200
    /\ Len(last.resp.devices) >= 1
    /\ \E r \in device_history : r.user_id # last.user

\* C10: the boundary is either normal (hasError false, nothing stored) or
\* errored (hasError true, the thrown error stored); it becomes errored only
\* by a descendant's throw during a render of the children, storing what was
\* thrown, and becomes normal again only by the retry handler
C10_TwoStates ==
    \/ (hasError = FALSE /\ error = Undefined)
    \/ (hasError = TRUE /\ error \in Errors)

C10_Transitions ==
    /\ (~hasError /\ hasError')
          => /\ event' = "throw"
             /\ phase = "rendering"
             /\ render(hasError, fallback) = "children"
             /\ defect \in Errors
             /\ error' = defect
    /\ (hasError /\ ~hasError')
          => (event' = "retry" /\ error' = Undefined)
    /\ (hasError /\ event' # "retry")
          => (hasError' /\ error' = error)

C10_BoundaryStates == []C10_TwoStates /\ [][C10_Transitions]_vars

\* the boundary caught a throw and was then reset by retry
C10_Witness ==
    hasError = FALSE /\ event = "retry" /\ caught >= 1 /\ output = "panel"

\* C11 as stated: once a render is committed, an errored boundary shows the
\* caller's fallback if one was passed and the default panel otherwise,
\* never the children; a normal boundary shows the children; and a
\* descendant's throw always ends in the boundary's errored state
C11_OutputIfGiven ==
    phase = "idle"
    => output = IF hasError
                THEN (IF fallback # "absent" THEN "fallback" ELSE "panel")
                ELSE "children"

C11_ThrowIsCaught == (event' = "throw") => (hasError' /\ error' = defect)

C11_RenderIfGiven == []C11_OutputIfGiven /\ [][C11_ThrowIsCaught]_vars

\* C11 amended: the fallback is shown when the fallback passed is truthy;
\* with none passed, or a falsy one, the default panel is shown
C11_OutputIfTruthy ==
    phase = "idle"
    => output = IF hasError
                THEN (IF fallback = "node" THEN "fallback" ELSE "panel")
                ELSE "children"

C11_RenderIfTruthy == []C11_OutputIfTruthy /\ [][C11_ThrowIsCaught]_vars

\* an errored boundary has committed the caller's fallback
C11_Witness ==
    hasError /\ phase = "idle" /\ fallback = "node" /\ output = "fallback"
        /\ event = "render" /\ caught >= 1

\* C12: while the children throw, a retry puts the boundary back to rendering
\* the children, the next render attempt throws and makes it errored again,
\* no render of the children is ever committed, and the panel's retry stays
\* available however often it was used
C12_NeverSettles == (defect \in Errors /\ phase = "idle") => hasError

C12_RetryAvailable ==
    (hasError /\ phase = "idle" /\ output = "panel") => ENABLED handleRetry

C12_RetryRerenders ==
    (event' = "retry")
    => (phase' = "rendering" /\ render(hasError', fallback') = "children")

C12_NextAttemptThrows ==
    (~hasError /\ phase = "rendering" /\ defect \in Errors
        /\ event' \in {"render", "throw"})
    => (event' = "throw" /\ hasError' /\ error' = defect)

C12_PersistentDefect ==
    /\ [](C12_NeverSettles /\ C12_RetryAvailable)
    /\ [][C12_RetryRerenders /\ C12_NextAttemptThrows]_vars

\* a retry was followed by a second throw
C12_Witness ==
    hasError /\ event = "throw" /\ caught >= 2 /\ output = "panel"

\* C18 as stated: with a caller-supplied fallback the errored state is never
\* left, and the committed fallback offers no retry
C18_NoRetryInFallback ==
    (phase = "idle" /\ output = "fallback") => ~ENABLED handleRetry

C18_AbsorbingIfGiven ==
    /\ []C18_NoRetryInFallback
    /\ [][(hasError /\ fallback # "absent") => hasError']_vars

\* C18 amended: the same for a truthy caller-supplied fallback
C18_AbsorbingIfTruthy ==
    /\ []C18_NoRetryInFallback
    /\ [][(hasError /\ fallback = "node") => hasError']_vars

\* the children no longer throw, yet the boundary still shows the fallback
C18_Witness ==
    /\ hasError /\ fallback = "node" /\ defect = Undefined
    /\ phase = "idle" /\ output = "fallback" /\ caught >= 1

\* C13: no request changes or drops a security_logs row already written; a
\* request adds at most one row, of type new_device_added when it is a
\* Register and device_removed when it is a Remove, and none when it is a
\* List
C13_Step ==
    \/ security_logs' = security_logs
    \/ /\ Len(security_logs') = Len(security_logs) + 1
       /\ SubSeq(security_logs', 1, Len(security_logs)) = security_logs
       /\ LET e == security_logs'[Len(security_logs')]
          IN  \/ (last'.op = "Register" /\ e.type = "new_device_added")
              \/ (last'.op = "Remove" /\ e.type = "device_removed")

C15_InsertFailed ==
    /\ last'.op = "Register" /\ last'.user \in Users
    /\ last'.calls = <<Call("device_history", "update", "ok"),
                       Call("device_history", "insert", "error")>>

C15_NoRollback ==
    /\ last'.resp.status = 500 /\ last'.resp.error
    /\ security_logs' = security_logs
    /\ {r.device_id : r \in device_history'} =
          {r.device_id : r \in device_history}
    /\ \A r \in device_history' : r.user_id = last'.user => ~r.is_current
    /\ \A r \in device_history :
          r.user_id = last'.user
          => [r EXCEPT !.is_current = FALSE] \in device_history'
    /\ \A r \in device_history :
          r.user_id # last'.user => r \in device_history'

C15_RegisterNoRollback == [][C15_InsertFailed => C15_NoRollback]_vars

\* the failed insert left the user's earlier device not current
C15_Witness ==
    /\ last.op = "Register" /\ last.user \in Users
    /\ last.calls = <<Call("device_history", "update", "ok"),
                      Call("device_history", "insert", "error")>>
    /\ \E r \in device_history : r.user_id = last.user
    /\ CurrentOf(device_history, last.user) = {}

\* C16: a Register or Remove with no resolved user answers 500 with an error
\* body (not 401), issues no backend call and leaves both tables as they were
C16_UnauthenticatedWrite ==
    [][(last'.op \in {"Register", "Remove"} /\ last'.user = NoUser)
       => /\ last'.resp.status = 500
          /\ last'.resp.error
          /\ last'.calls = <<>>
          /\ device_history' = device_history
          /\ security_logs' = security_logs]_vars

\* an unauthenticated Register was answered while a current record existed
C16_Witness ==
    /\ last.op = "Register" /\ last.user = NoUser /\ last.resp.status = 500
    /\ \E r \in device_history : r.is_current

\* C17: a Register or Remove by user u leaves every other user's device
\* records as they were and appends no log entry owned by another user
C17_Step ==
    (last'.op \in {"Register", "Remove"} /\ last'.user \in Users)
    => /\ {r \in device_history' : r.user_id # last'.user} =
             {r \in device_history : r.user_id # last'.user}
       /\ \A i \in (Len(security_logs) + 1)..Len(security_logs') :
             security_logs'[i].user_id = last'.user

C17_Isolation == [][C17_Step]_vars

\* a Remove that named another user's device was answered with success and
\* that device is still there, still current
C17_Witness ==
    /\ last.op = "Remove" /\ last.user \in Users /\ last.resp.status = 200
    /\ \E r \in device_history :
          r.device_id = last.arg /\ r.user_id # last.user /\ r.is_current
    /\ security_logs # <<>>
    /\ security_logs[Len(security_logs)] =
          LogEntry(last.user, "device_removed", last.arg)

\* C19: a Remove sets is_current on no record and changes no record it
\* leaves; a successful Remove of a current device leaves its user with no
\* current record, which lasts until that user's next successful Register;
\* a successful Remove of a device that is not current leaves the current
\* one current
C19_RemoveStep ==
    (last'.op = "Remove" /\ last'.user \in Users)
    => /\ device_history' \subseteq device_history
       /\ (last'.resp.status = 200
            /\ \E r \in device_history :
                  r.user_id = last'.user /\ r.device_id = last'.arg
                  /\ r.is_current)
          => CurrentOf(device_history', last'.user) = {}
       /\ (last'.resp.status = 200
            /\ ~\E r \in device_history :
                  r.user_id = last'.user /\ r.device_id = last'.arg
                  /\ r.is_current)
          => CurrentOf(device_history', last'.user) =
                CurrentOf(device_history, last'.user)

C19_NoneUntilRegister ==
    \A u \in Users :
        (CurrentOf(device_history, u) = {}
         /\ ~(last'.op = "Register" /\ last'.user = u
              /\ last'.resp.status = 200))
        => CurrentOf(device_history', u) = {}

C19_RemoveAndCurrent == [][C19_RemoveStep /\ C19_NoneUntilRegister]_vars

\* C14: when two Register requests of one user overlap and every backend
\* call succeeds, then once both have answered both new records exist and
\* the user has one or two current records; two is the inconsistent outcome
C14_BothDone ==
    /\ \A p \in Procs : reqs[p].pc = "done" /\ reqs[p].status = 200
                         /\ AllOk(reqs[p].calls)
    /\ reqs["a"].user = reqs["b"].user

C14_RaceOutcome ==
    C14_BothDone
    => /\ \A p \in Procs : \E r \in device_history :
             r.device_id = reqs[p].deviceId /\ r.user_id = reqs[p].user
       /\ Cardinality(CurrentOf(device_history, reqs["a"].user)) \in {1, 2}

\* both requests have answered and the user owns two current records
C14_Witness ==
    /\ C14_BothDone
    /\ Cardinality(CurrentOf(device_history, reqs["a"].user)) = 2

====
